---- MODULE Spec2Model ----
(***************************************************************************)
(* Model of the Douyin video-information service (src/main.py): the        *)
(* GET /douyin handler get_douyin_info, the URL helpers clean_url and      *)
(* extract_video_id, the redirect resolver follow_redirect and the two     *)
(* fetchers fetch_data_with_httpx and get_data_with_playwright.            *)
(*                                                                         *)
(* Strings are sequences of characters, so that the regular expressions    *)
(* and the substring tests of the source are computed position by          *)
(* position.  Literals that the code only copies (placeholder texts,       *)
(* field values of the detail API) are kept as one-symbol strings.         *)
(***************************************************************************)
EXTENDS Naturals, Sequences, FiniteSets

----------------------------------------------------------------------------
(* Bounds of the model *)

\* number of requests of a behaviour of Spec
MaxRequests == 1

\* number of requests in flight together on the event loop in a behaviour
\* of SpecConcurrent
MaxInFlight == 2

\* number of pieces a text given to clean_url or extract_video_id is made
\* of in a behaviour of SpecFunctions
MaxPieces == 3

----------------------------------------------------------------------------
(* String literals of the source, as character sequences *)

\* the "http" of the pattern at main.py:42
HTTP ==
    <<"h","t","t","p">>

\* the short-link domain text tested at main.py:181
SHORT_HOST ==
    <<"v",".","d","o","u","y","i","n",".","c","o","m">>

\* the "://v\.douyin\.com/" of the pattern at main.py:42
SHORT_HOST_SLASH ==
    <<":","/","/","v",".","d","o","u","y","i","n",".","c","o","m","/">>

\* the "/video/" alternative of the pattern at main.py:51
SLASH_VIDEO ==
    <<"/","v","i","d","e","o","/">>

\* the "/note/" alternative of the pattern at main.py:51
SLASH_NOTE ==
    <<"/","n","o","t","e","/">>

\* the "aweme_id=" of the pattern at main.py:55
AWEME_ID_EQ ==
    <<"a","w","e","m","e","_","i","d","=">>

\* the "vid=" of the pattern at main.py:59
VID_EQ ==
    <<"v","i","d","=">>

\* the detail-API path looked for in a response URL at main.py:130
DETAIL_PATH ==
    <<"a","w","e","m","e","/","v","1","/","w","e","b","/","a","w","e">>
    \o <<"m","e","/","d","e","t","a","i","l">>

\* the detail-API URL before the identifier, main.py:84 and main.py:153
API_URL_PREFIX ==
    <<"h","t","t","p","s",":","/","/","w","w","w",".","d","o","u","y">>
    \o <<"i","n",".","c","o","m","/","a","w","e","m","e","/","v","1","/">>
    \o <<"w","e","b","/","a","w","e","m","e","/","d","e","t","a","i","l">>
    \o <<"/","?","d","e","v","i","c","e","_","p","l","a","t","f","o","r">>
    \o <<"m","=","w","e","b","a","p","p","&","a","i","d","=","6","3","8">>
    \o <<"3","&","c","h","a","n","n","e","l","=","c","h","a","n","n","e">>
    \o <<"l","_","p","c","_","w","e","b","&","a","w","e","m","e","_","i">>
    \o <<"d","=">>

\* the identifier placeholder of the fallback record, main.py:159
UNKNOWN_ID ==
    <<"u","n","k","n","o","w","n">>

\* the canonical platform prefix tested at main.py:45
CANONICAL_PREFIX ==
    <<"h","t","t","p","s",":","/","/","w","w","w",".","d","o","u","y","i","n",".">>
    \o <<"c","o","m","/">>

\* the "Unknown" author placeholder, main.py:104, 113, 162
UNKNOWN_AUTHOR == <<"Unknown">>

\* desc of the record returned when the detail call gave nothing usable, main.py:102
DESC_UNAVAILABLE == <<"Video Description Unavailable">>

\* desc of the record returned when the detail call raised, main.py:111
DESC_ERROR == <<"Error retrieving video details">>

\* Python's None for an identifier; \d+ never matches the empty string, so
\* the empty sequence is free to stand for it ("not video_id" is true of both)
None == <<>>

\* the empty dict {} that video_data starts as, main.py:121
EmptyDict == [k \in {} |-> <<>>]

----------------------------------------------------------------------------
(* Character classes and matching primitives of Python's re *)

Digits == {"0","1","2","3","4","5","6","7","8","9"}

LowerCase == {"a","b","c","d","e","f","g","h","i","j","k","l","m",
              "n","o","p","q","r","s","t","u","v","w","x","y","z"}

UpperCase == {"A","B","C","D","E","F","G","H","I","J","K","L","M",
              "N","O","P","Q","R","S","T","U","V","W","X","Y","Z"}

\* the class [a-zA-Z0-9]
Alnum == LowerCase \cup UpperCase \cup Digits

Min(S) == CHOOSE x \in S : \A y \in S : x <= y

\* the literal p occurs in s at position i
StartsAt(s, i, p) ==
    /\ i >= 1
    /\ i + Len(p) - 1 <= Len(s)
    /\ \A k \in 1..Len(p) : s[i + k - 1] = p[k]

\* Python's "p in s" for a non-empty literal p
Contains(s, p) == \E i \in 1..Len(s) : StartsAt(s, i, p)

\* last position of the greedy run Class+ that starts at k (s[k] is in Class)
RunEnd(s, k, Class) ==
    LET stops == {j \in k..Len(s) : s[j] \notin Class}
    IN  IF stops = {} THEN Len(s) ELSE Min(stops) - 1

\* a run Class+ starts at k
RunStartsAt(s, k, Class) == k >= 1 /\ k <= Len(s) /\ s[k] \in Class

\* re.search(prefix(\d+)) for a set of alternative literal prefixes: group 1
\* of the leftmost match, or None
SearchDigitsAfter(s, Prefixes) ==
    LET hit(i, p) == StartsAt(s, i, p) /\ RunStartsAt(s, i + Len(p), Digits)
        starts == {i \in 1..Len(s) : \E p \in Prefixes : hit(i, p)}
    IN  IF starts = {} THEN None
        ELSE LET i == Min(starts)
                 p == CHOOSE q \in Prefixes : hit(i, q)
             IN  SubSeq(s, i + Len(p), RunEnd(s, i + Len(p), Digits))

----------------------------------------------------------------------------
(* clean_url, main.py:40-47 *)

\* end of the match of https?://v\.douyin\.com/[a-zA-Z0-9]+ that starts at i,
\* or 0 if there is none
ShortLinkMatchEnd(s, i) ==
    LET host == IF ~StartsAt(s, i, HTTP) THEN 0
                ELSE IF /\ i + 4 <= Len(s)
                        /\ s[i + 4] = "s"
                        /\ StartsAt(s, i + 5, SHORT_HOST_SLASH) THEN i + 5
                ELSE IF StartsAt(s, i + 4, SHORT_HOST_SLASH) THEN i + 4
                ELSE 0
        token == host + Len(SHORT_HOST_SLASH)
    IN  IF host = 0 THEN 0
        ELSE IF RunStartsAt(s, token, Alnum) THEN RunEnd(s, token, Alnum)
        ELSE 0

\* clean_url that never looks for a short link
clean_url_passthrough(url) ==
    url

clean_url(url) ==
    LET starts == {i \in 1..Len(url) : ShortLinkMatchEnd(url, i) > 0}
    IN  IF starts # {}
        THEN SubSeq(url, Min(starts), ShortLinkMatchEnd(url, Min(starts)))
        ELSE IF StartsAt(url, 1, CANONICAL_PREFIX) THEN url
        ELSE url

----------------------------------------------------------------------------
(* extract_video_id, main.py:49-63 *)

\* extract_video_id trying aweme_id= before the path segment
extract_video_id_query_first(url) ==
    LET video_pattern == SearchDigitsAfter(url, {SLASH_VIDEO, SLASH_NOTE})
        aweme_pattern == SearchDigitsAfter(url, {AWEME_ID_EQ})
        vid_pattern   == SearchDigitsAfter(url, {VID_EQ})
    IN  IF aweme_pattern # None THEN aweme_pattern
        ELSE IF video_pattern # None THEN video_pattern
        ELSE IF vid_pattern # None THEN vid_pattern
        ELSE None

extract_video_id(url) ==
    LET video_pattern == SearchDigitsAfter(url, {SLASH_VIDEO, SLASH_NOTE})
        aweme_pattern == SearchDigitsAfter(url, {AWEME_ID_EQ})
        vid_pattern   == SearchDigitsAfter(url, {VID_EQ})
    IN  IF video_pattern # None THEN video_pattern
        ELSE IF aweme_pattern # None THEN aweme_pattern
        ELSE IF vid_pattern # None THEN vid_pattern
        ELSE None

----------------------------------------------------------------------------
(* The inputs and the outside world the requests are run against *)

\* a canonical URL: "https://www.douyin.com/video/12"
RAW_CANONICAL ==
    <<"h","t","t","p","s",":","/","/","w","w","w",".","d","o","u","y">>
    \o <<"i","n",".","c","o","m","/","v","i","d","e","o","/","1","2">>

\* share text around a short link: "7.43 https://v.douyin.com/aB1/ copy"
RAW_SHARE_TEXT ==
    <<"7",".","4","3"," ","h","t","t","p","s",":","/","/","v",".","d">>
    \o <<"o","u","y","i","n",".","c","o","m","/","a","B","1","/"," ","c">>
    \o <<"o","p","y">>

\* "not a url"
RAW_NOT_A_URL ==
    <<"n","o","t"," ","a"," ","u","r","l">>

\* a canonical URL naming the short-link domain in its query:
\* "https://www.douyin.com/video/12?from=v.douyin.com"
RAW_MENTION ==
    <<"h","t","t","p","s",":","/","/","w","w","w",".","d","o","u","y">>
    \o <<"i","n",".","c","o","m","/","v","i","d","e","o","/","1","2","?">>
    \o <<"f","r","o","m","=","v",".","d","o","u","y","i","n",".","c","o">>
    \o <<"m">>

\* another host whose name ends in the short-link domain text:
\* "https://dev.douyin.com/x"
RAW_OTHER_HOST ==
    <<"h","t","t","p","s",":","/","/","d","e","v",".","d","o","u","y">>
    \o <<"i","n",".","c","o","m","/","x">>

\* a page with an identifier: "https://www.douyin.com/video/34"
FINAL_VIDEO ==
    <<"h","t","t","p","s",":","/","/","w","w","w",".","d","o","u","y">>
    \o <<"i","n",".","c","o","m","/","v","i","d","e","o","/","3","4">>

\* a page without identifier: "https://www.douyin.com/"
FINAL_HOME ==
    <<"h","t","t","p","s",":","/","/","w","w","w",".","d","o","u","y">>
    \o <<"i","n",".","c","o","m","/">>

\* the raw inputs a request can carry
RawInputs ==
    {RAW_CANONICAL, RAW_SHARE_TEXT, RAW_NOT_A_URL, RAW_MENTION, RAW_OTHER_HOST}

\* outcome of an awaited or blocking call on the outside world: it raised, or
\* it gave a value
Raised == [raised |-> TRUE, value |-> EmptyDict]

Returned(v) == [raised |-> FALSE, value |-> v]

\* outcomes of client.get in follow_redirect: an exception, or a response
\* whose .url is the final URL
RedirectOutcomes == {Raised, Returned(FINAL_VIDEO), Returned(FINAL_HOME)}

\* the aweme_detail object of the detail API's JSON contract
Detail(id, desc, urls, nick) ==
    [aweme_id |-> id,
     desc     |-> desc,
     video    |-> [play_addr |-> [url_list |-> urls]],
     author   |-> [nickname |-> nick]]

DETAIL_A == Detail(<<"7">>, <<"desc A">>, <<<<"play A">>, <<"play A2">>>>, <<"nick A">>)

DETAIL_B == Detail(<<"8">>, <<"desc B">>, <<<<"play B">>>>, <<"nick B">>)

\* aweme_detail with an empty url_list
DETAIL_NO_URLS == Detail(<<"7">>, <<"desc A">>, <<>>, <<"nick A">>)

\* aweme_detail without the desc key
DETAIL_NO_DESC ==
    [aweme_id |-> <<"7">>,
     video    |-> [play_addr |-> [url_list |-> <<<<"play A">>>>]],
     author   |-> [nickname |-> <<"nick A">>]]

\* an HTTP response: its status, whether .json() parses, and the parsed body
Response(code, parses, data) ==
    [status_code |-> code, parses |-> parses, data |-> data]

\* bodies a response can carry
Bodies ==
    {Response(200, TRUE, [aweme_detail |-> DETAIL_A]),
     Response(200, TRUE, [aweme_detail |-> DETAIL_B]),
     Response(200, TRUE, [aweme_detail |-> DETAIL_NO_URLS]),
     Response(200, TRUE, [aweme_detail |-> DETAIL_NO_DESC]),
     Response(200, TRUE, [status_msg |-> <<"blocked">>]),
     Response(200, TRUE, EmptyDict),
     Response(200, FALSE, EmptyDict),
     Response(404, TRUE, [aweme_detail |-> DETAIL_A]),
     Response(404, FALSE, EmptyDict)}

\* outcomes of client.get in fetch_data_with_httpx
ApiOutcomes == {Raised} \cup {Returned(b) : b \in Bodies}

\* the URL of a detail-API request made by the page itself:
\* "https://www.douyin.com/aweme/v1/web/aweme/detail/?aweme_id=1"
DETAIL_REQUEST_URL ==
    CANONICAL_PREFIX \o DETAIL_PATH \o <<"/", "?">> \o AWEME_ID_EQ \o <<"1">>

\* responses the page's own traffic delivers to the response observer
PageResponses ==
    {[url |-> DETAIL_REQUEST_URL, response |-> b] : b \in Bodies}
    \cup {[url |-> FINAL_HOME,
           response |-> Response(200, TRUE, [aweme_detail |-> DETAIL_B])]}

\* page.url after page.goto(url): the URL itself, or where the site sent the page
Landings(url) == {url, FINAL_HOME}

\* page.title(): the title of the page the browser is on
TitleOf(page_url) == <<"title of ">> \o page_url

----------------------------------------------------------------------------
(* The four-field record both fetchers build from aweme_detail,
   main.py:91-97 and main.py:134-140: a missing key or an empty url_list
   raises *)

RecordFromDetail(detail) ==
    IF /\ {"aweme_id", "desc", "video", "author"} \subseteq DOMAIN detail
       /\ "play_addr" \in DOMAIN detail.video
       /\ "url_list" \in DOMAIN detail.video.play_addr
       /\ Len(detail.video.play_addr.url_list) >= 1
       /\ "nickname" \in DOMAIN detail.author
    THEN Returned([aweme_id  |-> detail.aweme_id,
                   desc      |-> detail.desc,
                   video_url |-> detail.video.play_addr.url_list[1],
                   author    |-> detail.author.nickname])
    ELSE Raised

\* the keys of DouyinResponse, main.py:34-38
Fields == {"aweme_id", "desc", "video_url", "author"}

----------------------------------------------------------------------------
(* follow_redirect, main.py:65-73 *)

\* follow_redirect without its except clause
follow_redirect_raising(short_url, outcome) ==
    IF outcome.raised THEN Raised
    ELSE Returned(outcome.value)

follow_redirect(short_url, outcome) ==
    IF outcome.raised THEN Returned(short_url)
    ELSE Returned(outcome.value)

----------------------------------------------------------------------------
(* fetch_data_with_httpx, main.py:75-114 *)

\* the try block building the record with the input id in place of the
\* body's aweme_id
HttpxTry_input_id(url, video_id, outcome) ==
    LET unavailable == [aweme_id  |-> video_id,
                        desc      |-> DESC_UNAVAILABLE,
                        video_url |-> url,
                        author    |-> UNKNOWN_AUTHOR]
        response == outcome.value
    IN  IF outcome.raised THEN Raised
        ELSE IF response.status_code = 200
        THEN IF ~response.parses THEN Raised
             ELSE IF /\ DOMAIN response.data # {}
                     /\ "aweme_detail" \in DOMAIN response.data
             THEN LET built == RecordFromDetail(response.data.aweme_detail)
                  IN  IF built.raised THEN Raised
                      ELSE Returned([built.value EXCEPT !.aweme_id = video_id])
             ELSE Returned(unavailable)
        ELSE Returned(unavailable)

\* the body of the try block, main.py:77-105
HttpxTry(url, video_id, outcome) ==
    LET unavailable == [aweme_id  |-> video_id,
                        desc      |-> DESC_UNAVAILABLE,
                        video_url |-> url,
                        author    |-> UNKNOWN_AUTHOR]
        response == outcome.value
    IN  IF outcome.raised THEN Raised
        ELSE IF response.status_code = 200
        THEN IF ~response.parses THEN Raised
             ELSE IF /\ DOMAIN response.data # {}
                     /\ "aweme_detail" \in DOMAIN response.data
             THEN RecordFromDetail(response.data.aweme_detail)
             ELSE Returned(unavailable)
        ELSE Returned(unavailable)

\* fetch_data_with_httpx with one placeholder description for both failure
\* classes
fetch_data_with_httpx_one_placeholder(url, video_id, outcome) ==
    LET tried == HttpxTry(url, video_id, outcome)
    IN  IF tried.raised
        THEN Returned([aweme_id  |-> video_id,
                       desc      |-> DESC_UNAVAILABLE,
                       video_url |-> url,
                       author    |-> UNKNOWN_AUTHOR])
        ELSE tried

\* fetch_data_with_httpx without its except clause
fetch_data_with_httpx_raising(url, video_id, outcome) ==
    HttpxTry(url, video_id, outcome)

fetch_data_with_httpx(url, video_id, outcome) ==
    LET tried == HttpxTry(url, video_id, outcome)
    IN  IF tried.raised
        THEN Returned([aweme_id  |-> video_id,
                       desc      |-> DESC_ERROR,
                       video_url |-> url,
                       author    |-> UNKNOWN_AUTHOR])
        ELSE tried

----------------------------------------------------------------------------
(* handle_response, the observer of get_data_with_playwright,
   main.py:128-142: the new value of video_data *)

\* the URLs of the responses the observer is called with
ResponseUrls == {p.url : p \in PageResponses}

\* main.py:130, 'aweme/v1/web/aweme/detail' in response.url, for each of
\* these URLs
InDetailPathUrls == [url \in ResponseUrls |-> Contains(url, DETAIL_PATH)]

\* handle_response emptying the slot when processing the response fails
handle_response_clearing(video_data, url, response) ==
    IF InDetailPathUrls[url]
    THEN IF ~response.parses THEN EmptyDict
         ELSE IF /\ DOMAIN response.data # {}
                 /\ "aweme_detail" \in DOMAIN response.data
         THEN LET built == RecordFromDetail(response.data.aweme_detail)
              IN  IF built.raised THEN EmptyDict ELSE built.value
         ELSE video_data
    ELSE video_data

handle_response(video_data, url, response) ==
    IF InDetailPathUrls[url]
    THEN IF ~response.parses THEN video_data
         ELSE IF /\ DOMAIN response.data # {}
                 /\ "aweme_detail" \in DOMAIN response.data
         THEN LET built == RecordFromDetail(response.data.aweme_detail)
              IN  IF built.raised THEN video_data ELSE built.value
         ELSE video_data
    ELSE video_data

----------------------------------------------------------------------------
(* State *)

VARIABLES
    requests,               \* per request: the handler's and the fetcher's locals
    loop,                   \* the request running on the event loop's thread
                            \* without having yielded, 0 if none
    PLAYWRIGHT_AVAILABLE,   \* main.py:15-21, set once at import
    call                    \* one call of a function of main.py taken by itself:
                            \* the function, its arguments, what it returned

vars == <<requests, loop, PLAYWRIGHT_AVAILABLE, call>>

\* no function is looked at by itself
NoCall == [f |-> "none", args |-> <<>>, ret |-> <<>>]

\* the requests of a behaviour
Requests == DOMAIN requests

\* positions inside get_data_with_playwright, named by the call about to be
\* made or in progress
PlaywrightSteps ==
    {"sync_playwright", "launch", "new_page", "goto", "settle",
     "goto_api", "settle_api", "title", "close"}

\* positions at which the registered observer can be called: Playwright's
\* sync API dispatches page events while a call on the page is in progress
ObservingSteps == {"goto", "settle", "goto_api", "settle_api", "title", "close"}

\* a request that has not arrived yet
Idle ==
    [pc          |-> "idle",
     raw         |-> <<>>,      \* the url query parameter
     url         |-> <<>>,      \* the handler's url
     video_id    |-> None,      \* the handler's video_id
     redirect    |-> "none",    \* how follow_redirect's GET ended
     calls       |-> <<>>,      \* the functions the handler has called, in order
     pw_url      |-> <<>>,      \* get_data_with_playwright's url argument
     browser     |-> "none",    \* the browser launched for this request
     video_data  |-> EmptyDict, \* the fetcher's result slot
     page_url    |-> <<>>,      \* page.url
     current_url |-> <<>>,      \* the fetcher's current_url
     pw_video_id |-> None,      \* the fetcher's video_id
     pw_error    |-> "none",    \* the call at which the fetcher raised
     last_match  |-> EmptyDict, \* what the last response the observer
                                \* captured in this session put in the slot
     httpx_url   |-> <<>>,      \* fetch_data_with_httpx's url argument
     httpx_id    |-> None,      \* fetch_data_with_httpx's video_id argument
     via         |-> "none",    \* the fetcher whose record was returned
     status      |-> 0,         \* the HTTP status answered, 0 while in flight
     result      |-> EmptyDict] \* the body answered with status 200

----------------------------------------------------------------------------
(* get_douyin_info, main.py:172-197, and get_data_with_playwright,
   main.py:116-170, as steps of one request q *)

\* the handler ends: a returned record is a 200, HTTPException(400) a 400,
\* any other exception leaving the handler a 500
Respond(q, code, record) ==
    [q EXCEPT !.pc = "done", !.status = code, !.result = record]

\* the call of fetch_data_with_httpx is made and awaits the detail API
CallHttpx(q, url, video_id) ==
    [q EXCEPT !.pc = "httpx",
              !.calls = Append(@, "fetch_data_with_httpx"),
              !.httpx_url = url,
              !.httpx_id = video_id]

\* main.py:197, the awaited fetch_data_with_httpx has ended
HandlerReturn(q, ret) ==
    IF ret.raised THEN Respond(q, 500, EmptyDict)
    ELSE Respond([q EXCEPT !.via = "httpx"], 200, ret.value)

\* the handler letting the fetcher's HTTPException(500) through
HandlerExcept_reraise(q) == Respond(q, 500, EmptyDict)

\* main.py:193-197, the handler's except clause and what follows it
HandlerExcept(q) == CallHttpx(q, q.url, q.video_id)

\* Playwright started without the with statement: nothing is released
ExitPlaywright_leak(q) == q

\* leaving "with sync_playwright() as pw", main.py:124: stopping Playwright
\* ends the browsers it launched
ExitPlaywright(q) ==
    [q EXCEPT !.browser = IF @ = "open" THEN "closed" ELSE @]

\* the fetcher's locals end with the call
DropLocals(q) ==
    [q EXCEPT !.video_data = EmptyDict,
              !.page_url = <<>>,
              !.current_url = <<>>,
              !.pw_video_id = None,
              !.last_match = EmptyDict]

\* a fetcher whose HTTPException(500) reaches the client when Playwright
\* cannot be started or the browser cannot be launched
PlaywrightRaised_surface(q, step) ==
    LET q1 == DropLocals([ExitPlaywright(q) EXCEPT !.pw_error = step])
    IN  IF step \in {"sync_playwright", "launch"} THEN Respond(q1, 500, EmptyDict)
        ELSE HandlerExcept(q1)

\* an exception inside the with block, main.py:168-170: the fetcher raises
\* HTTPException(500) to the handler
PlaywrightRaised(q, step) ==
    HandlerExcept(DropLocals([ExitPlaywright(q) EXCEPT !.pw_error = step]))

\* a handler that calls fetch_data_with_httpx after the fetcher returned
PlaywrightReturned_fallthrough(q) ==
    CallHttpx(DropLocals(ExitPlaywright(q)), q.url, q.video_id)

\* main.py:167 and main.py:192: the fetcher returns video_data and the
\* handler returns it
PlaywrightReturned(q) ==
    Respond(DropLocals([ExitPlaywright(q) EXCEPT !.via = "playwright"]),
            200, q.video_data)

\* main.py:192 and main.py:116-121: the call of get_data_with_playwright
EnterPlaywright(q) ==
    LET q1 == [q EXCEPT !.calls = Append(@, "get_data_with_playwright"),
                        !.pw_url = q.url]
    IN  IF ~PLAYWRIGHT_AVAILABLE
        THEN HandlerExcept([q1 EXCEPT !.pw_error = "unavailable"])
        ELSE [q1 EXCEPT !.pc = "sync_playwright", !.video_data = EmptyDict]

\* a handler that tries the Browser-Driven Fetcher whatever the flag says
AfterResolve_always(q) ==
    LET video_id == extract_video_id(q.url)
        q1 == [q EXCEPT !.video_id = video_id,
                        !.calls = Append(@, "extract_video_id")]
    IN  IF video_id = None THEN Respond(q1, 400, EmptyDict)
        ELSE EnterPlaywright(q1)

\* main.py:184-197, from identifier extraction to the first fetcher call
AfterResolve(q) ==
    LET video_id == extract_video_id(q.url)
        q1 == [q EXCEPT !.video_id = video_id,
                        !.calls = Append(@, "extract_video_id")]
    IN  IF video_id = None THEN Respond(q1, 400, EmptyDict)
        ELSE IF PLAYWRIGHT_AVAILABLE THEN EnterPlaywright(q1)
        ELSE CallHttpx(q1, q1.url, video_id)

\* main.py:177-182, the handler up to its first await
HandlerStart(q, raw) ==
    LET url == clean_url(raw)
        q1 == [q EXCEPT !.raw = raw, !.url = url, !.calls = <<"clean_url">>]
    IN  IF Contains(url, SHORT_HOST)
        THEN [q1 EXCEPT !.pc = "follow_redirect",
                        !.calls = Append(@, "follow_redirect")]
        ELSE AfterResolve(q1)

\* main.py:182, the awaited follow_redirect has ended
HandlerResume(q, outcome) ==
    LET ret == follow_redirect(q.url, outcome)
        q1 == [q EXCEPT !.redirect = IF outcome.raised THEN "failed"
                                     ELSE "followed"]
    IN  IF ret.raised THEN Respond(q1, 500, EmptyDict)
        ELSE AfterResolve([q1 EXCEPT !.url = ret.value])

\* main.py:124, entering "with sync_playwright() as pw"
SyncPlaywright(q, ok) ==
    IF ok THEN [q EXCEPT !.pc = "launch"]
    ELSE PlaywrightRaised(q, "sync_playwright")

\* main.py:125
Launch(q, ok) ==
    IF ok THEN [q EXCEPT !.pc = "new_page", !.browser = "open"]
    ELSE PlaywrightRaised(q, "launch")

\* main.py:126-144, the page is created and the observer registered
NewPage(q, ok) ==
    IF ok THEN [q EXCEPT !.pc = "goto"]
    ELSE PlaywrightRaised(q, "new_page")

\* main.py:146
Goto(q, ok, landed) ==
    IF ok THEN [q EXCEPT !.pc = "settle", !.page_url = landed]
    ELSE PlaywrightRaised(q, "goto")

\* a settle step that navigates to the detail API whenever the page URL has
\* an identifier, captured record or not
Settle_renavigate(q, ok) ==
    LET q1 == [q EXCEPT !.current_url = q.page_url]
        video_id == extract_video_id(q.page_url)
    IN  IF ~ok THEN PlaywrightRaised(q, "settle")
        ELSE IF video_id # None
        THEN [q1 EXCEPT !.pc = "goto_api", !.pw_video_id = video_id]
        ELSE IF DOMAIN q.video_data # {} THEN [q1 EXCEPT !.pc = "close"]
        ELSE [q1 EXCEPT !.pc = "title"]

\* main.py:147-152, the settle wait ends and the result slot is looked at
Settle(q, ok) ==
    LET q1 == [q EXCEPT !.current_url = q.page_url]
        video_id == extract_video_id(q.page_url)
    IN  IF ~ok THEN PlaywrightRaised(q, "settle")
        ELSE IF DOMAIN q.video_data # {} THEN [q1 EXCEPT !.pc = "close"]
        ELSE IF video_id # None
        THEN [q1 EXCEPT !.pc = "goto_api", !.pw_video_id = video_id]
        ELSE [q1 EXCEPT !.pc = "title"]

\* main.py:153-154
GotoApi(q, ok) ==
    IF ok THEN [q EXCEPT !.pc = "settle_api",
                         !.page_url = API_URL_PREFIX \o q.pw_video_id]
    ELSE PlaywrightRaised(q, "goto_api")

\* main.py:155-157
SettleApi(q, ok) ==
    IF ~ok THEN PlaywrightRaised(q, "settle_api")
    ELSE IF DOMAIN q.video_data # {} THEN [q EXCEPT !.pc = "close"]
    ELSE [q EXCEPT !.pc = "title"]

\* a fallback record built without its author
Title_partial(q, ok) ==
    IF ok
    THEN [q EXCEPT !.pc = "close",
                   !.video_data =
                       [aweme_id  |-> IF q.pw_video_id # None THEN q.pw_video_id
                                      ELSE UNKNOWN_ID,
                        desc      |-> TitleOf(q.page_url),
                        video_url |-> q.current_url]]
    ELSE PlaywrightRaised(q, "title")

\* main.py:158-163, the fallback record
Title(q, ok) ==
    IF ok
    THEN [q EXCEPT !.pc = "close",
                   !.video_data =
                       [aweme_id  |-> IF q.pw_video_id # None THEN q.pw_video_id
                                      ELSE UNKNOWN_ID,
                        desc      |-> TitleOf(q.page_url),
                        video_url |-> q.current_url,
                        author    |-> UNKNOWN_AUTHOR]]
    ELSE PlaywrightRaised(q, "title")

\* a close step whose exception is swallowed and the record returned
Close_keep_record(q, ok) ==
    PlaywrightReturned([q EXCEPT !.browser = "closed",
                                 !.pw_error = IF ok THEN @ ELSE "close"])

\* main.py:165-167
Close(q, ok) ==
    IF ok THEN PlaywrightReturned([q EXCEPT !.browser = "closed"])
    ELSE PlaywrightRaised(q, "close")

\* main.py:128-144, the observer is called with one response
Observe(q, p) ==
    LET captured == handle_response(EmptyDict, p.url, p.response)
    IN  [q EXCEPT !.video_data = handle_response(@, p.url, p.response),
                  !.last_match = IF captured # EmptyDict THEN captured ELSE @]

\* main.py:173 and main.py:192: the handler is a coroutine of the event loop
\* and calls get_data_with_playwright directly, so the loop's thread stays
\* with the request for as long as the fetcher runs
Blocking(q) == q.pc \in PlaywrightSteps

----------------------------------------------------------------------------
(* Actions *)

\* request r runs on the event loop's thread up to its next await, its
\* return, or the next call of the blocking fetcher
Run(r, q) ==
    /\ loop \in {0, r}
    /\ requests' = [requests EXCEPT ![r] = q]
    /\ loop' = IF Blocking(q) THEN r ELSE 0
    /\ UNCHANGED <<PLAYWRIGHT_AVAILABLE, call>>

Receive(r) ==
    /\ requests[r].pc = "idle"
    /\ \E raw \in RawInputs : Run(r, HandlerStart(requests[r], raw))

RedirectDone(r) ==
    /\ requests[r].pc = "follow_redirect"
    /\ \E outcome \in RedirectOutcomes : Run(r, HandlerResume(requests[r], outcome))

HttpxDone(r) ==
    /\ requests[r].pc = "httpx"
    /\ \E outcome \in ApiOutcomes :
          Run(r, HandlerReturn(requests[r],
                               fetch_data_with_httpx(requests[r].httpx_url,
                                                     requests[r].httpx_id,
                                                     outcome)))

PwSyncPlaywright(r) ==
    /\ requests[r].pc = "sync_playwright"
    /\ \E ok \in BOOLEAN : Run(r, SyncPlaywright(requests[r], ok))

PwLaunch(r) ==
    /\ requests[r].pc = "launch"
    /\ \E ok \in BOOLEAN : Run(r, Launch(requests[r], ok))

PwNewPage(r) ==
    /\ requests[r].pc = "new_page"
    /\ \E ok \in BOOLEAN : Run(r, NewPage(requests[r], ok))

PwGoto(r) ==
    /\ requests[r].pc = "goto"
    /\ \E ok \in BOOLEAN, landed \in Landings(requests[r].pw_url) :
          Run(r, Goto(requests[r], ok, landed))

PwSettle(r) ==
    /\ requests[r].pc = "settle"
    /\ \E ok \in BOOLEAN : Run(r, Settle(requests[r], ok))

PwGotoApi(r) ==
    /\ requests[r].pc = "goto_api"
    /\ \E ok \in BOOLEAN : Run(r, GotoApi(requests[r], ok))

PwSettleApi(r) ==
    /\ requests[r].pc = "settle_api"
    /\ \E ok \in BOOLEAN : Run(r, SettleApi(requests[r], ok))

PwTitle(r) ==
    /\ requests[r].pc = "title"
    /\ \E ok \in BOOLEAN : Run(r, Title(requests[r], ok))

PwClose(r) ==
    /\ requests[r].pc = "close"
    /\ \E ok \in BOOLEAN : Run(r, Close(requests[r], ok))

PwResponse(r) ==
    /\ requests[r].pc \in ObservingSteps
    /\ \E p \in PageResponses : Run(r, Observe(requests[r], p))

\* the service after import: no request yet, the flag as the import of
\* Playwright left it
Started(n) ==
    /\ requests = [r \in 1..n |-> Idle]
    /\ loop = 0
    /\ PLAYWRIGHT_AVAILABLE \in BOOLEAN
    /\ call = NoCall

Init == Started(MaxRequests)

InitConcurrent == Started(MaxInFlight)

\* the steps request r can take
Handle(r) ==
        \/ Receive(r)
        \/ RedirectDone(r)
        \/ HttpxDone(r)
        \/ PwSyncPlaywright(r)
        \/ PwLaunch(r)
        \/ PwNewPage(r)
        \/ PwGoto(r)
        \/ PwSettle(r)
        \/ PwGotoApi(r)
        \/ PwSettleApi(r)
        \/ PwTitle(r)
        \/ PwClose(r)
        \/ PwResponse(r)

Next == \E r \in Requests : Handle(r)

Spec == Init /\ [][Next]_vars

\* the same service with several requests on its event loop
SpecConcurrent == InitConcurrent /\ [][Next]_vars

----------------------------------------------------------------------------
(* The functions of main.py taken by themselves: one call of clean_url,
   extract_video_id, fetch_data_with_httpx or handle_response on arguments
   drawn from the sets below *)

\* the texts made of at most n pieces
RECURSIVE TextsOf(_, _)
TextsOf(Pieces, n) ==
    IF n = 0 THEN {<<>>}
    ELSE LET shorter == TextsOf(Pieces, n - 1)
         IN  shorter \cup {p \o s : p \in Pieces, s \in shorter}

\* what a URL given to extract_video_id is made of: the three forms with
\* their digits, the forms without digits, digits, a separator
UrlPieces ==
    {<<"/","v","i","d","e","o","/","1","2","3","4","5">>,
     <<"/","n","o","t","e","/","6","7","8","9","0">>,
     <<"a","w","e","m","e","_","i","d","=","1","1","1">>,
     <<"v","i","d","=","2","2","2">>,
     <<"/","v","i","d","e","o","/">>,
     <<"v","i","d","=">>,
     <<"9">>,
     <<"&">>}

\* what a text given to clean_url is made of: short links, their parts, the
\* canonical prefix, other text
TextPieces ==
    {<<"h","t","t","p","s",":","/","/","v",".","d","o","u","y","i","n",".","c","o","m","/","X","y","9">>,
     <<"h","t","t","p",":","/","/","v",".","d","o","u","y","i","n",".","c","o","m","/">>,
     <<"h","t","t","p","s",":","/","/","v",".","d","o","u","y","i","n",".","c","o","m","/">>,
     <<"a","B","1">>,
     <<"/">>,
     <<" ">>,
     <<"v",".","d","o","u","y","i","n",".","c","o","m","/">>,
     <<"h","t","t","p","s",":","/","/","w","w","w",".","d","o","u","y","i","n",".","c","o","m","/">>}

UrlTexts == TextsOf(UrlPieces, MaxPieces)

RawTexts == TextsOf(TextPieces, MaxPieces)

\* arguments of fetch_data_with_httpx
HttpxUrls == {RAW_CANONICAL, FINAL_VIDEO}

HttpxIds == {<<"1", "2">>, <<"3", "4">>}

\* values of the result slot when the observer is called
SlotValues ==
    {EmptyDict,
     RecordFromDetail(DETAIL_A).value,
     RecordFromDetail(DETAIL_B).value}

Applied(f, args, ret) == [f |-> f, args |-> args, ret |-> ret]

CallCleanUrl ==
    /\ call = NoCall
    /\ \E url \in RawTexts :
           call' = Applied("clean_url", <<url>>, clean_url(url))
    /\ UNCHANGED <<requests, loop, PLAYWRIGHT_AVAILABLE>>

CallExtractVideoId ==
    /\ call = NoCall
    /\ \E url \in UrlTexts :
           call' = Applied("extract_video_id", <<url>>, extract_video_id(url))
    /\ UNCHANGED <<requests, loop, PLAYWRIGHT_AVAILABLE>>

CallFetchDataWithHttpx ==
    /\ call = NoCall
    /\ \E url \in HttpxUrls, video_id \in HttpxIds, outcome \in ApiOutcomes :
           call' = Applied("fetch_data_with_httpx", <<url, video_id, outcome>>,
                           fetch_data_with_httpx(url, video_id, outcome))
    /\ UNCHANGED <<requests, loop, PLAYWRIGHT_AVAILABLE>>

CallHandleResponse ==
    /\ call = NoCall
    /\ \E video_data \in SlotValues, p \in PageResponses :
           call' = Applied("handle_response", <<video_data, p.url, p.response>>,
                           handle_response(video_data, p.url, p.response))
    /\ UNCHANGED <<requests, loop, PLAYWRIGHT_AVAILABLE>>

InitFunctions == Started(0)

NextFunctions ==
    \/ CallCleanUrl
    \/ CallExtractVideoId
    \/ CallFetchDataWithHttpx
    \/ CallHandleResponse

SpecFunctions == InitFunctions /\ [][NextFunctions]_vars

----------------------------------------------------------------------------
(* Vocabulary of the properties *)

\* the handler of request q has called function f
Invoked(q, f) == \E i \in DOMAIN q.calls : q.calls[i] = f

\* the handler called g directly after f
CalledNext(q, f, g) ==
    \E i \in DOMAIN q.calls :
        /\ q.calls[i] = f
        /\ i + 1 \in DOMAIN q.calls
        /\ q.calls[i + 1] = g

\* the calls at which a failure means that the automation itself does not
\* work, as opposed to a page that could not be read
StructuralSteps == {"sync_playwright", "launch"}

\* the calls made once the browser is launched
SessionSteps ==
    {"new_page", "goto", "settle", "goto_api", "settle_api", "title", "close"}

\* the text contains a short-link-shaped substring
HasShortLink(s) == \E i \in 1..Len(s) : ShortLinkMatchEnd(s, i) > 0

\* the host of a URL: what stands between "://" and the next "/", "?" or "#";
\* empty when the text has no "://"
HostOf(url) ==
    LET seps == {i \in 1..Len(url) : StartsAt(url, i, <<":", "/", "/">>)}
        from == Min(seps) + 3
        ends == {j \in from..Len(url) : url[j] \in {"/", "?", "#"}}
    IN  IF seps = {} THEN <<>>
        ELSE SubSeq(url, from, IF ends = {} THEN Len(url) ELSE Min(ends) - 1)

----------------------------------------------------------------------------
(* Properties *)

\* C1: whenever the Browser-Driven Fetcher was called and raised, whatever
\* the call that failed, the handler went on to call fetch_data_with_httpx
\* with the url it had given the fetcher and the identifier it had
\* extracted, and the request ends with status 200 and that fetcher's record.
FallbackAfterPlaywrightFailure ==
    \A r \in Requests :
        LET q == requests[r]
        IN  q.pw_error # "none" =>
                /\ q.pc \in {"httpx", "done"}
                /\ CalledNext(q, "get_data_with_playwright", "fetch_data_with_httpx")
                /\ q.httpx_url = q.pw_url
                /\ q.httpx_id = q.video_id
                /\ q.pc = "done" =>
                       /\ q.status = 200
                       /\ q.via = "httpx"
                       /\ q.result.aweme_id \in {q.video_id, <<"7">>, <<"8">>}

\* a request whose first navigation failed and that ended with the
\* Lightweight Fetcher's record
FallbackAfterPlaywrightFailureWitness ==
    \E r \in Requests :
        /\ requests[r].pw_error = "goto"
        /\ requests[r].pc = "done"
        /\ requests[r].status = 200
        /\ requests[r].via = "httpx"

\* C2, as stated: a request ends with status 500 exactly when the
\* Browser-Driven Fetcher was called and the automation itself was broken.
BrokenAutomationAnswers500 ==
    \A r \in Requests :
        requests[r].pc = "done" =>
            (requests[r].status = 500 <=> requests[r].pw_error \in StructuralSteps)

\* C2, amended: the handler never ends with the fetcher's HTTPException(500);
\* when Playwright cannot be started or the browser cannot be launched the
\* handler falls back like for any other failure and the request ends with
\* status 200 and the Lightweight Fetcher's record.  The handler ends with
\* 200 or 400 only.
BrokenAutomationFallsBack ==
    \A r \in Requests :
        LET q == requests[r]
        IN  /\ q.status \in {0, 200, 400}
            /\ q.pw_error \in StructuralSteps =>
                   /\ Invoked(q, "fetch_data_with_httpx")
                   /\ q.pc = "done" => q.status = 200 /\ q.via = "httpx"

\* a request whose browser could not be launched and that ended with 200
BrokenAutomationFallsBackWitness ==
    \E r \in Requests :
        /\ requests[r].pw_error = "launch"
        /\ requests[r].pc = "done"
        /\ requests[r].status = 200

\* C3: a browser that was launched is open only while its fetcher call is
\* still running; once the call has returned or raised it is released.
BrowserReleased ==
    \A r \in Requests :
        requests[r].browser = "open" => requests[r].pc \in PlaywrightSteps

\* a fetcher call that raised at the title read, after its browser was
\* launched, and whose browser is released
BrowserReleasedWitness ==
    \E r \in Requests :
        /\ requests[r].pw_error = "title"
        /\ requests[r].browser = "closed"

\* C4: while one request is inside its browser session, another request
\* that is waiting for its network call can still take its next step.
BrowserSessionDoesNotStallOthers ==
    \A r, o \in Requests :
        /\ r # o
        /\ requests[r].browser = "open"
        /\ requests[r].pc \in PlaywrightSteps
        /\ requests[o].pc \in {"follow_redirect", "httpx"}
        => ENABLED Handle(o)

\* C5: a request whose identifier was extracted ends with status 200 and a
\* record of exactly the four fields; a request ends otherwise only with
\* status 400, and then no identifier was extracted.
IdentifiedRequestAnswers200 ==
    \A r \in Requests :
        LET q == requests[r]
        IN  q.pc = "done" =>
                /\ q.video_id # None => q.status = 200 /\ DOMAIN q.result = Fields
                /\ q.status # 200 => q.status = 400 /\ q.video_id = None

\* a request for which redirect resolution, the browser capture and the
\* lightweight fetch all failed, and that ended with status 200
IdentifiedRequestAnswers200Witness ==
    \E r \in Requests :
        /\ requests[r].pc = "done"
        /\ requests[r].redirect = "failed"
        /\ requests[r].pw_error \in SessionSteps
        /\ requests[r].result.desc = DESC_ERROR
        /\ requests[r].status = 200

\* C6: with PLAYWRIGHT_AVAILABLE false the handler never calls
\* get_data_with_playwright and no browser is launched; every request whose
\* identifier was extracted calls fetch_data_with_httpx and ends with its
\* record.
NoBrowserWhenUnavailable ==
    ~PLAYWRIGHT_AVAILABLE =>
        \A r \in Requests :
            LET q == requests[r]
            IN  /\ ~Invoked(q, "get_data_with_playwright")
                /\ q.browser = "none"
                /\ q.pw_error = "none"
                /\ q.video_id # None => Invoked(q, "fetch_data_with_httpx")
                /\ q.video_id # None /\ q.pc = "done" =>
                       q.status = 200 /\ q.via = "httpx"

\* a request served without the capability, through the Lightweight Fetcher
NoBrowserWhenUnavailableWitness ==
    /\ ~PLAYWRIGHT_AVAILABLE
    /\ \E r \in Requests :
          /\ requests[r].pc = "done"
          /\ requests[r].via = "httpx"
          /\ requests[r].result.desc = DESC_UNAVAILABLE

\* C7: a request whose raw input holds no short link and no identifier ends
\* with status 400 and has made no outbound call: follow_redirect and the
\* two fetchers were not called.  And a request that ends with status 400
\* has called neither fetcher.
NoOutboundCallBefore400 ==
    \A r \in Requests :
        LET q == requests[r]
            outbound == {"follow_redirect", "get_data_with_playwright",
                         "fetch_data_with_httpx"}
        IN  /\ /\ q.pc # "idle"
               /\ ~HasShortLink(q.raw)
               /\ extract_video_id(q.raw) = None
               => /\ \A f \in outbound : ~Invoked(q, f)
                  /\ q.pc = "done" /\ q.status = 400
            /\ q.status = 400 =>
                   /\ ~Invoked(q, "get_data_with_playwright")
                   /\ ~Invoked(q, "fetch_data_with_httpx")

\* C8: follow_redirect is called only for a normalized URL whose host is
\* the short-link domain.
RedirectOnlyForShortLinkHost ==
    \A r \in Requests :
        Invoked(requests[r], "follow_redirect") =>
            HostOf(clean_url(requests[r].raw)) = SHORT_HOST

\* C9: when follow_redirect's GET raised, follow_redirect returned its
\* argument, the normalized URL, unchanged and raised nothing; the handler
\* went on to extract the identifier from that URL.
RedirectSoftFails ==
    \A r \in Requests :
        LET q == requests[r]
        IN  q.redirect = "failed" =>
                /\ q.status # 500
                /\ q.url = clean_url(q.raw)
                /\ CalledNext(q, "follow_redirect", "extract_video_id")
                /\ q.video_id = extract_video_id(clean_url(q.raw))

\* a short link that could not be resolved: the identifier is looked for
\* in the short link itself and the request ends with status 400
RedirectSoftFailsWitness ==
    \E r \in Requests :
        /\ requests[r].raw = RAW_SHARE_TEXT
        /\ requests[r].redirect = "failed"
        /\ requests[r].url = clean_url(RAW_SHARE_TEXT)
        /\ requests[r].status = 400

\* C10: every call of fetch_data_with_httpx that has ended gave the handler
\* a record of the four fields, which the handler answered with status 200:
\* no outcome of the detail-API call makes it raise.
HttpxAlwaysReturnsRecord ==
    \A r \in Requests :
        LET q == requests[r]
        IN  Invoked(q, "fetch_data_with_httpx") /\ q.pc = "done" =>
                /\ q.status = 200
                /\ q.via = "httpx"
                /\ DOMAIN q.result = Fields
                /\ q.result.author \in {UNKNOWN_AUTHOR, <<"nick A">>, <<"nick B">>}

\* a call whose detail-API request raised or could not be read, and that
\* returned the error record
HttpxAlwaysReturnsRecordWitness ==
    \E r \in Requests :
        /\ requests[r].pc = "done"
        /\ requests[r].via = "httpx"
        /\ requests[r].result = [aweme_id  |-> requests[r].httpx_id,
                                 desc      |-> DESC_ERROR,
                                 video_url |-> requests[r].httpx_url,
                                 author    |-> UNKNOWN_AUTHOR]

----------------------------------------------------------------------------
(* Properties of the functions taken by themselves, under SpecFunctions *)

\* an aweme_detail object is complete: every key the record is built from
\* is there and url_list has a first element
Complete(detail) ==
    /\ "aweme_id" \in DOMAIN detail
    /\ "desc" \in DOMAIN detail
    /\ "video" \in DOMAIN detail
    /\ "play_addr" \in DOMAIN detail.video
    /\ "url_list" \in DOMAIN detail.video.play_addr
    /\ detail.video.play_addr.url_list # <<>>
    /\ "author" \in DOMAIN detail
    /\ "nickname" \in DOMAIN detail.author

HasDetail(response) ==
    /\ response.parses
    /\ "aweme_detail" \in DOMAIN response.data

\* the detail API answered 200 with a well-formed aweme_detail body
WellFormed200(outcome) ==
    /\ ~outcome.raised
    /\ outcome.value.status_code = 200
    /\ HasDetail(outcome.value)
    /\ Complete(outcome.value.data.aweme_detail)

\* the call completed without an exception and gave no usable detail: a
\* status other than 200, or 200 with a body without the aweme_detail key
NoUsableDetail(outcome) ==
    /\ ~outcome.raised
    /\ \/ outcome.value.status_code # 200
       \/ /\ outcome.value.parses
          /\ "aweme_detail" \notin DOMAIN outcome.value.data

\* an exception occurred: the GET raised, the body of a 200 did not parse,
\* or its aweme_detail lacks what the record is built from
ExceptionOccurred(outcome) ==
    \/ outcome.raised
    \/ /\ outcome.value.status_code = 200
       /\ \/ ~outcome.value.parses
          \/ /\ HasDetail(outcome.value)
             /\ ~Complete(outcome.value.data.aweme_detail)

Placeholder(url, video_id, desc) ==
    [aweme_id |-> video_id, desc |-> desc, video_url |-> url,
     author |-> UNKNOWN_AUTHOR]

\* C11: in every non-success outcome of fetch_data_with_httpx the returned
\* record has the input id, the input url and author "Unknown"; its desc is
\* "Video Description Unavailable" when the call completed without an
\* exception but gave no usable detail, and "Error retrieving video details"
\* when an exception occurred
HttpxPlaceholderTellsFailureClass ==
    call.f = "fetch_data_with_httpx" =>
        LET url == call.args[1]
            video_id == call.args[2]
            outcome == call.args[3]
        IN  /\ ~WellFormed200(outcome) =>
                   \/ NoUsableDetail(outcome) /\ ~ExceptionOccurred(outcome)
                   \/ ExceptionOccurred(outcome) /\ ~NoUsableDetail(outcome)
            /\ NoUsableDetail(outcome) =>
                   call.ret = Returned(Placeholder(url, video_id, DESC_UNAVAILABLE))
            /\ ExceptionOccurred(outcome) =>
                   call.ret = Returned(Placeholder(url, video_id, DESC_ERROR))

\* fetch_data_with_httpx was called, the body of a 200 did not parse, and
\* the error placeholder came back
HttpxPlaceholderTellsFailureClassWitness ==
    /\ call.f = "fetch_data_with_httpx"
    /\ ~call.args[3].raised
    /\ call.args[3].value.status_code = 200
    /\ ~call.args[3].value.parses
    /\ call.ret.value.desc = DESC_ERROR

\* C12: when the detail API answers 200 with a well-formed aweme_detail
\* body, fetch_data_with_httpx returns the record whose aweme_id is the
\* body's aweme_id (not the input id), whose desc is the body's desc, whose
\* video_url is the first element of video.play_addr.url_list and whose
\* author is author.nickname
HttpxRecordFromBody ==
    (call.f = "fetch_data_with_httpx" /\ WellFormed200(call.args[3])) =>
        LET detail == call.args[3].value.data.aweme_detail
        IN  /\ ~call.ret.raised
            /\ DOMAIN call.ret.value = Fields
            /\ call.ret.value.aweme_id = detail.aweme_id
            /\ call.ret.value.desc = detail.desc
            /\ call.ret.value.video_url = Head(detail.video.play_addr.url_list)
            /\ call.ret.value.author = detail.author.nickname

\* fetch_data_with_httpx was called on a well-formed 200 whose url_list has
\* two elements and whose aweme_id is not the input id
HttpxRecordFromBodyWitness ==
    /\ call.f = "fetch_data_with_httpx"
    /\ WellFormed200(call.args[3])
    /\ Len(call.args[3].value.data.aweme_detail.video.play_addr.url_list) > 1
    /\ call.args[3].value.data.aweme_detail.aweme_id # call.args[2]
    /\ call.ret.value.aweme_id # call.args[2]

\* the places of url where a form (a literal followed by a digit) occurs
Occurrences(url, form) ==
    {i \in 1..Len(url) :
        /\ StartsAt(url, i, form)
        /\ i + Len(form) <= Len(url)
        /\ url[i + Len(form)] \in Digits}

\* the digits of url from place k on, up to the first character that is not
\* a digit
DigitsFrom(url, k) ==
    LET n == CHOOSE m \in 1..(Len(url) - k + 1) :
                 /\ \A j \in k..(k + m - 1) : url[j] \in Digits
                 /\ k + m > Len(url) \/ url[k + m] \notin Digits
    IN  SubSeq(url, k, k + n - 1)

\* the digits of the occurrences of a form in url
DigitsOf(url, form) ==
    {DigitsFrom(url, i + Len(form)) : i \in Occurrences(url, form)}

PathDigits(url) == DigitsOf(url, SLASH_VIDEO) \cup DigitsOf(url, SLASH_NOTE)

\* C13: extract_video_id returns the digits of a /video/<digits> or
\* /note/<digits> segment if the URL has one, else those of aweme_id=<digits>
\* if it has one, else those of vid=<digits> if it has one, wherever in the
\* URL the forms occur, and None exactly when the URL has none of the three
\* forms
ExtractPriority ==
    call.f = "extract_video_id" =>
        LET url == call.args[1]
            path == PathDigits(url)
            aweme == DigitsOf(url, AWEME_ID_EQ)
            vid == DigitsOf(url, VID_EQ)
        IN  /\ path # {} => call.ret \in path
            /\ (path = {} /\ aweme # {}) => call.ret \in aweme
            /\ (path = {} /\ aweme = {} /\ vid # {}) => call.ret \in vid
            /\ call.ret = None <=> (path = {} /\ aweme = {} /\ vid = {})

\* extract_video_id was called on a URL with the three forms, vid= first and
\* the path segment last, and returned the digits of the path segment
ExtractPriorityWitness ==
    /\ call.f = "extract_video_id"
    /\ Occurrences(call.args[1], VID_EQ) # {}
    /\ Occurrences(call.args[1], AWEME_ID_EQ) # {}
    /\ Occurrences(call.args[1], SLASH_VIDEO) # {}
    /\ Min(Occurrences(call.args[1], VID_EQ))
           < Min(Occurrences(call.args[1], AWEME_ID_EQ))
    /\ Min(Occurrences(call.args[1], AWEME_ID_EQ))
           < Min(Occurrences(call.args[1], SLASH_VIDEO))
    /\ call.ret \in DigitsOf(call.args[1], SLASH_VIDEO)
    /\ call.ret \notin DigitsOf(call.args[1], AWEME_ID_EQ)

\* the two protocols in front of the short-link host
ShortLinkFronts ==
    {HTTP \o SHORT_HOST_SLASH, HTTP \o <<"s">> \o SHORT_HOST_SLASH}

\* url[i..j] is short-link-shaped: protocol, short-link host, and a token of
\* one or more letters and digits
ShortLinkShaped(url, i, j) ==
    \E front \in ShortLinkFronts :
        /\ StartsAt(url, i, front)
        /\ j >= i + Len(front)
        /\ j <= Len(url)
        /\ \A k \in (i + Len(front))..j : url[k] \in Alnum

\* the places of url where a short-link-shaped substring starts
ShortLinkStarts(url) ==
    {i \in 1..Len(url) :
        \E front \in ShortLinkFronts : ShortLinkShaped(url, i, i + Len(front))}

\* C14: on an input with a short-link-shaped substring clean_url returns
\* exactly that substring (the first one, with its whole token) whatever the
\* text around it; on an input without one it returns the input unchanged;
\* it never raises
CleanUrlReturnsShortLink ==
    call.f = "clean_url" =>
        LET url == call.args[1]
            starts == ShortLinkStarts(url)
        IN  IF starts # {}
            THEN \E j \in Min(starts)..Len(url) :
                    /\ ShortLinkShaped(url, Min(starts), j)
                    /\ j = Len(url) \/ url[j + 1] \notin Alnum
                    /\ call.ret = SubSeq(url, Min(starts), j)
            ELSE call.ret = url

\* clean_url was called on a text with a short link between other text and
\* returned the short link alone
CleanUrlReturnsShortLinkWitness ==
    /\ call.f = "clean_url"
    /\ ShortLinkStarts(call.args[1]) # {}
    /\ Min(ShortLinkStarts(call.args[1])) > 1
    /\ Len(call.ret) < Len(call.args[1]) - Min(ShortLinkStarts(call.args[1])) + 1
    /\ call.ret = HTTP \o <<"s">> \o SHORT_HOST_SLASH \o <<"X", "y", "9">>

\* processing the response raises inside the observer: the body does not
\* parse as JSON, or its aweme_detail lacks an inner field or has an empty
\* url_list
ObserverError(url, response) ==
    /\ Contains(url, DETAIL_PATH)
    /\ \/ ~response.parses
       \/ /\ HasDetail(response)
          /\ ~Complete(response.data.aweme_detail)

\* C20: an error while handle_response processes one response (body not
\* parseable as JSON, aweme_detail lacking an inner field, empty url_list)
\* stays inside the observer and leaves video_data exactly as it was
ObserverErrorKeepsSlot ==
    (call.f = "handle_response" /\ ObserverError(call.args[2], call.args[3]))
        => call.ret = call.args[1]

\* handle_response was called with a record already captured, on a response
\* whose aweme_detail lacks a field, and the record is still there
ObserverErrorKeepsSlotWitness ==
    /\ call.f = "handle_response"
    /\ call.args[1] # EmptyDict
    /\ ObserverError(call.args[2], call.args[3])
    /\ call.args[3].parses
    /\ call.ret = call.args[1]

----------------------------------------------------------------------------
(* Properties of one request, under Spec *)

\* the stages of the pipeline in their order
STAGES ==
    <<"clean_url", "follow_redirect", "extract_video_id",
      "get_data_with_playwright", "fetch_data_with_httpx">>

StageIndex(f) == CHOOSE i \in DOMAIN STAGES : STAGES[i] = f

\* the calls are stages in their order, none made twice
InStageOrder(calls) ==
    /\ \A i \in DOMAIN calls : \E k \in DOMAIN STAGES : calls[i] = STAGES[k]
    /\ \A i, j \in DOMAIN calls :
           i < j => StageIndex(calls[i]) < StageIndex(calls[j])

\* C15: per request the stages run in the order clean_url, follow_redirect,
\* extract_video_id, get_data_with_playwright, fetch_data_with_httpx, each
\* at most once; fetch_data_with_httpx is called only if the capability is
\* absent or get_data_with_playwright was called and raised; when
\* get_data_with_playwright returns, its record is the answer as it is and
\* fetch_data_with_httpx is not called
StagesInOrderOnce ==
    [][\A r \in Requests :
          LET q == requests[r]
              n == requests'[r]
          IN  /\ InStageOrder(n.calls)
              /\ Invoked(n, "fetch_data_with_httpx") =>
                     \/ ~PLAYWRIGHT_AVAILABLE
                     \/ /\ Invoked(n, "get_data_with_playwright")
                        /\ n.pw_error # "none"
              /\ (q.pc = "close" /\ n.pw_error = "none" /\ n.pc # "close") =>
                     /\ n.pc = "done"
                     /\ n.via = "playwright"
                     /\ n.status = 200
                     /\ n.result = q.video_data
              /\ n.via = "playwright" => ~Invoked(n, "fetch_data_with_httpx")
      ]_vars

\* a request went through clean_url, follow_redirect, extract_video_id and
\* get_data_with_playwright, the fetcher returned, and that was the answer
StagesInOrderOnceWitness ==
    \E r \in Requests :
        /\ requests[r].pc = "done"
        /\ requests[r].via = "playwright"
        /\ requests[r].calls =
               <<"clean_url", "follow_redirect", "extract_video_id",
                 "get_data_with_playwright">>

\* C16: the observer is registered before the first navigation and the
\* result slot holds the fields of the last intercepted response that
\* matched: no response is captured before the first navigation, while the
\* session lasts the slot is the record of the most recent matching
\* response, and so is the record the fetcher is about to return
SlotHoldsLastMatch ==
    \A r \in Requests :
        LET q == requests[r]
        IN  /\ q.pc \in {"sync_playwright", "launch", "new_page"} =>
                   q.last_match = EmptyDict
            /\ (q.pc \in ObservingSteps /\ q.last_match # EmptyDict) =>
                   q.video_data = q.last_match

\* the place of a step in the fetcher's sequence
StepRank(pc) ==
    CASE pc = "sync_playwright" -> 1
      [] pc = "launch" -> 2
      [] pc = "new_page" -> 3
      [] pc = "goto" -> 4
      [] pc = "settle" -> 5
      [] pc = "goto_api" -> 6
      [] pc = "settle_api" -> 7
      [] pc = "title" -> 8
      [] pc = "close" -> 9
      [] OTHER -> 10

\* C17: the second navigation, to the detail-API URL built from the
\* identifier and followed by its own wait, is made at most once per
\* session, and only when the slot is empty at the end of the first
\* navigation and its settle wait and the page's current URL has an
\* identifier; with a captured record, or without an identifier, the session
\* goes on without it
SecondNavigationOnlyWhenNeeded ==
    [][\A r \in Requests :
          LET q == requests[r]
              n == requests'[r]
          IN  /\ (q.pc \in PlaywrightSteps /\ n.pc \in PlaywrightSteps) =>
                     StepRank(q.pc) <= StepRank(n.pc)
              /\ (n.pc = "goto_api" /\ q.pc # "goto_api") =>
                     /\ q.pc = "settle"
                     /\ q.video_data = EmptyDict
                     /\ extract_video_id(q.page_url) # None
              /\ (q.pc = "settle" /\ n.pc \in {"title", "close"}) =>
                     \/ q.video_data # EmptyDict
                     \/ extract_video_id(q.page_url) = None
              /\ (q.pc = "goto_api" /\ n.pc # "goto_api" /\ n.pw_error = "none") =>
                     /\ n.pc = "settle_api"
                     /\ n.page_url =
                            API_URL_PREFIX \o extract_video_id(q.current_url)
              /\ n.pc = "settle_api" => q.pc \in {"goto_api", "settle_api"}
      ]_vars

\* the session is in the wait after the second navigation, on the detail-API
\* URL of the identifier found in the page's URL
SecondNavigationOnlyWhenNeededWitness ==
    \E r \in Requests :
        /\ requests[r].pc = "settle_api"
        /\ requests[r].pw_video_id # None
        /\ requests[r].page_url = API_URL_PREFIX \o requests[r].pw_video_id
        /\ requests[r].page_url # requests[r].current_url

\* C18: when the session ends with no captured record the fetcher builds a
\* fallback record with the identifier found in the page URL or "unknown",
\* the title of the page, the current URL of the page and author "Unknown",
\* title and URL being those of the page as it is when the record is built;
\* and the fallback record is built only when the slot is empty at that
\* point
FallbackDescribesCurrentPage ==
    [][\A r \in Requests :
          LET q == requests[r]
              n == requests'[r]
              found == extract_video_id(q.current_url)
          IN  (q.pc = "title" /\ n.pc = "close") =>
                  /\ q.video_data = EmptyDict
                  /\ n.video_data =
                         [aweme_id  |-> IF found # None THEN found ELSE UNKNOWN_ID,
                          desc      |-> TitleOf(q.page_url),
                          video_url |-> q.page_url,
                          author    |-> UNKNOWN_AUTHOR]
      ]_vars

\* C19: an exception raised at any call of get_data_with_playwright makes
\* the fetcher raise to its caller: its call is over, it has returned no
\* record, not even the one it had built, and the answer is not its record
PlaywrightFailureReturnsNoRecord ==
    \A r \in Requests :
        requests[r].pw_error # "none" =>
            /\ requests[r].pc \notin PlaywrightSteps
            /\ requests[r].via # "playwright"
            /\ requests[r].video_data = EmptyDict
            /\ requests[r].browser # "open"

\* browser.close() raised after the record was built, and the answer came
\* from fetch_data_with_httpx
PlaywrightFailureReturnsNoRecordWitness ==
    \E r \in Requests :
        /\ requests[r].pw_error = "close"
        /\ requests[r].pc = "done"
        /\ requests[r].via = "httpx"

====
